---- MODULE Spec2Model ----
(***************************************************************************)
(* Model of azimuthal-fdf: the schedule in Parameters (src/parameters.rs), *)
(* the time-stepping loop Settings::run (src/simulate.rs), the loading of  *)
(* a settings file (src/settings.rs) and the command-line driver           *)
(* (src/main.rs).                                                          *)
(*                                                                         *)
(* Floats.  A timestep is an exact fraction <<n, d>> (d > 0, lowest        *)
(* terms) and number_of_cycles is a multiple of 1/NcDen.  On these inputs  *)
(* the f64 quotients the code rounds (1/timestep, cycles/timestep) have    *)
(* small numerators and denominators, so an f64 quotient lies on the same  *)
(* side of every integer and half-integer as the exact one: ceil() and     *)
(* round() are computed exactly.  Inputs are finite (no NaN, no infinity). *)
(* Angles are counted in units of pi/8.                                    *)
(***************************************************************************)
EXTENDS Integers, Sequences, FiniteSets, TLC

VARIABLES
    settings,   \* the Settings value under construction / in use, or NoSettings
    last,       \* the most recent call on it: operation, argument, result
    pc,         \* position of Settings::run: idle, running, done, panicked
    ind,        \* loop index of Settings::run (simulate.rs:19)
    mode,       \* number of update_mode calls applied to the initial SystemMode
    logs,       \* the Observer::log calls of the current run, in order
    cli,        \* command-line driver: branch and phase of main()
    jobs,       \* command-line driver: the simulations of the batch
    store,      \* groups present in the output dataset store
    conv,       \* the last conversion or describing-function call and its result
    obs,        \* an Observer on its own: how it was built, its histogram
    sims        \* the simulations of a parallel batch, step by step

paramVars == <<settings, last>>
runVars == <<pc, ind, mode, logs>>
cliVars == <<cli, jobs, store>>
auxVars == <<conv, obs, sims>>
vars == <<settings, last, pc, ind, mode, logs, cli, jobs, store, conv, obs, sims>>

----------------------------------------------------------------------------
(* Bounds of the model *)

\* timesteps are the fractions n/d with d in 1..MaxTsDen
MaxTsDen == 4
\* number_of_cycles ranges over -1/NcDen .. MaxNc/NcDen
NcDen == 2
MaxNc == 3
\* saves_per_cycle ranges over 0..MaxSaves
MaxSaves == 3

\* pi/4 in units of pi/8 (lib.rs: FRAC_PI_4)
FRAC_PI_4 == 2
\* pi in units of pi/6 (lib.rs: PI), for the burner grid
PI == 6
\* a signal sample is one of 0..MaxSample, a signal holds up to MaxSignalLen
MaxSample == 2
MaxSignalLen == 3
\* the harmonic orders asked for are 0..MaxOrder
MaxOrder == 6
\* kappa of a Saturation ranges over 1..MaxKappa, the local amplitudes of one
\* call over up to MaxBurners burners
MaxKappa == 2
MaxBurners == 2
\* number_of_burners of Parameters::default
DefaultBurners == 12
\* nbins of a HistogramObserver built by new or default (scaled down)
HistBins == 2
\* a batch holds 2..MaxFiles settings files
MaxFiles == 2
\* the groups the settings files may name as their save target
MaxGroups == 2
\* the simulations of the experiment branch (gain_factors, main.rs:67)
ExperimentRuns == 4
\* Float::exp returns 0.0 below -ExpMin (units of ln 2; scaled down)
ExpMin == 2
\* amplitudes range up to 2^MaxAmpExp units
MaxAmpExp == 4
\* tan(2.0 * FRAC_PI_4) as a whole number (scaled down)
TanMax == 3
\* gain_ratio_r in tenths: 1.0 (ConventionalFDF::new, AFDFSimplified::default)
\* and 1.6 (DescribingFunction::default)
UnitRatio == 10
DefaultRatio == 16
\* noise ranges over 0..MaxNoise
MaxNoise == 1
\* a histogram is given an amplitude_limit of 1..MaxLimit units
MaxLimit == 2
\* max_amplitude_limit: 10.0 * a_lim (HistogramObserver::new)
MaxLimitFactor == 10
\* an observer on its own is sent up to MaxLogs samples
MaxLogs == 2
\* total_steps of the simulations of a parallel batch
SimSteps == 2
\* the size of a large noise draw
BigDraw == 3

----------------------------------------------------------------------------
(* Arithmetic on the fractions *)

RECURSIVE GCD(_, _)
GCD(a, b) == IF b = 0 THEN a ELSE GCD(b, a % b)

Abs(x) == IF x < 0 THEN -x ELSE x

\* ceil(a / b) for b > 0
Ceil(a, b) == -((-a) \div b)

\* round(a / b) for a >= 0, b > 0: f64::round rounds half away from zero
Round(a, b) == (2 * a + b) \div (2 * b)

\* `x as usize` of a float: saturating at 0 (negative values become 0)
AsUsize(x) == IF x < 0 THEN 0 ELSE x

TimestepInputs ==
    {t \in (-1 .. MaxTsDen + 1) \X (1 .. MaxTsDen) :
        /\ t[1] <= t[2] + 1
        /\ (t[1] <= 0 => t[2] = 1)
        /\ GCD(Abs(t[1]), t[2]) = 1}

CyclesInputs == -1 .. MaxNc
SavesInputs == 0 .. MaxSaves

\* number_of_burners: the default of the example
BurnerInputs == {DefaultBurners}

\* initial modes: amplitude and nature angle (orientation angle and phase are
\* unconstrained and take no part in any check of the code)
ModeInputs ==
    {[amplitude |-> a, nature_angle |-> c] :
        a \in {0, 1}, c \in {FRAC_PI_4, -(FRAC_PI_4 + 1)}}

----------------------------------------------------------------------------
(* Parameters (src/parameters.rs) *)

NoSettings == [kind |-> "none"]

\* the checks of Parameters::new and set_timestep on a timestep
TimestepRejected(ts) == ts[1] <= 0 \/ ts[1] > ts[2]

SavingRejected(saves_per_cycle) == saves_per_cycle < 2

\* the four derived fields as set_timestep computes them, in its order;
\* "panic" is the integer division by zero of line 137 or 138
Derive(number_of_cycles, ts, saves_per_cycle) ==
    LET total_steps == AsUsize(Ceil(number_of_cycles * ts[2], NcDen * ts[1]))
        steps_per_cycle == AsUsize(Round(ts[2], ts[1]))
    IN  IF saves_per_cycle = 0
        THEN [panic |-> TRUE, total_steps |-> total_steps,
              steps_per_cycle |-> steps_per_cycle,
              skip_per_save |-> 0, num_steps_to_save |-> 0]
        ELSE LET skip_per_save == steps_per_cycle \div saves_per_cycle
             IN  IF skip_per_save = 0
                 THEN [panic |-> TRUE, total_steps |-> total_steps,
                       steps_per_cycle |-> steps_per_cycle,
                       skip_per_save |-> 0, num_steps_to_save |-> 0]
                 ELSE [panic |-> FALSE, total_steps |-> total_steps,
                       steps_per_cycle |-> steps_per_cycle,
                       skip_per_save |-> skip_per_save,
                       num_steps_to_save |-> total_steps \div skip_per_save]

\* Parameters::set_timestep on the Parameters value p: the result and the
\* value it leaves behind
set_timestep(p, new_timestep) ==
    IF TimestepRejected(new_timestep)
    THEN [result |-> "Timestep", p |-> p]
    ELSE IF p.number_of_cycles < 0
    THEN [result |-> "NegativeNumber", p |-> p]
    ELSE LET d == Derive(p.number_of_cycles, new_timestep, p.saves_per_cycle)
         IN  IF d.panic
             THEN [result |-> "panic",
                   p |-> [p EXCEPT !.total_steps = d.total_steps,
                                   !.steps_per_cycle = d.steps_per_cycle]]
             ELSE [result |-> "Ok",
                   p |-> [p EXCEPT !.total_steps = d.total_steps,
                                   !.steps_per_cycle = d.steps_per_cycle,
                                   !.skip_per_save = d.skip_per_save,
                                   !.num_steps_to_save = d.num_steps_to_save,
                                   !.timestep = new_timestep]]

\* Parameters::init: the burner grid, then set_timestep(self.timestep)
init(p) ==
    set_timestep([p EXCEPT !.thetas = p.number_of_burners], p.timestep)

\* Parameters::set_number_of_cycles
set_number_of_cycles(p, number_of_cycles) ==
    LET q == [p EXCEPT !.number_of_cycles = number_of_cycles]
    IN  set_timestep(q, q.timestep)

\* Parameters::set_saves_per_cycle
set_saves_per_cycle(p, saves_per_cycle) ==
    IF SavingRejected(saves_per_cycle)
    THEN [result |-> "Saving", p |-> p]
    ELSE LET q == [p EXCEPT !.saves_per_cycle = saves_per_cycle]
         IN  set_timestep(q, q.timestep)

\* Parameters::set_initial_mode: no check, no result
set_initial_mode(p, m) == [result |-> "Ok", p |-> [p EXCEPT !.initial_mode = m]]

\* the struct literal of Parameters::new (lines 84-99), and the value serde
\* builds for a settings file (the four derived fields and thetas are skipped)
Fresh(timestep, number_of_cycles, saves_per_cycle, initial_mode, burners) ==
    [timestep |-> timestep, number_of_cycles |-> number_of_cycles,
     saves_per_cycle |-> saves_per_cycle, initial_mode |-> initial_mode,
     number_of_burners |-> burners,
     skip_per_save |-> 0, total_steps |-> 0, steps_per_cycle |-> 0,
     num_steps_to_save |-> 0, thetas |-> 0]

\* Parameters::new
new(timestep, number_of_cycles, saves_per_cycle, initial_mode, burners) ==
    LET parameters ==
            Fresh(timestep, number_of_cycles, saves_per_cycle, initial_mode, burners)
    IN  IF TimestepRejected(timestep)
        THEN [result |-> "Timestep", p |-> parameters]
        ELSE IF SavingRejected(saves_per_cycle)
        THEN [result |-> "Saving", p |-> parameters]
        ELSE init(parameters)

----------------------------------------------------------------------------
(* Mode, SystemMode (src/azimuthal_mode.rs) and the observers *)

\* SystemMode::new panics on these (lines 98-104); From<Mode> calls it
SystemModeRejected(m) == m.amplitude <= 0 \/ Abs(m.nature_angle) > FRAC_PI_4

\* observers built by Default, new or From<SaveInfo>: the histogram's five bin
\* vectors hold nbins entries
BuiltObservers ==
    {[kind |-> "TimeSeries", bins |-> 0], [kind |-> "Histogram", bins |-> HistBins]}

\* observers deserialized by Settings::from_file: the bin vectors are
\* #[serde(skip)] and from_file never calls set_nbins, so they stay empty
FileObservers ==
    {[kind |-> "TimeSeries", bins |-> 0], [kind |-> "Histogram", bins |-> 0]}

\* Observer::log.  TimeSeriesObserver::log only pushes.  HistogramObserver::log
\* panics when the bin vectors are empty (index out of bounds, lines 119-120)
\* and when the logged amplitude would widen the range beyond
\* max_amplitude_limit (expand_amplitude_range, lines 98-103); the amplitude
\* follows the noise draws, so `over` is an input of every log call
ObserverLogPanics(observer, over) ==
    observer.kind = "Histogram" /\ (observer.bins = 0 \/ over)

----------------------------------------------------------------------------
(* Operations on the Settings value *)

Live == settings.kind = "settings"
Quiescent == pc \in {"idle", "done"}

Made(p, observer) == [kind |-> "settings", parameters |-> p, observer |-> observer]

Called(op, arg, r) ==
    [op |-> op, arg |-> arg, result |-> r.result,
     site |-> IF r.result = "panic" THEN "set_timestep" ELSE "-"]

ResetRun ==
    /\ pc' = "idle"
    /\ ind' = 0
    /\ mode' = 0
    /\ logs' = <<>>

\* a call on the live Parameters: an Err leaves the value r.p in place, a
\* panic unwinds and drops the Settings
Apply(op, arg, r) ==
    /\ settings' = IF r.result = "panic" THEN NoSettings
                   ELSE [settings EXCEPT !.parameters = r.p]
    /\ last' = Called(op, arg, r)
    /\ ResetRun
    /\ UNCHANGED <<cliVars, auxVars>>

\* nothing is held: the program is about to build its Settings
Blank == settings = NoSettings /\ pc = "idle" /\ last.op \in {"none", "drop"}

\* the Settings value is dropped, or the process that failed is gone: the
\* program starts over
Drop ==
    /\ pc # "running"
    /\ ~Blank
    /\ settings' = NoSettings
    /\ last' = [op |-> "drop", arg |-> 0, result |-> "Ok", site |-> "-"]
    /\ ResetRun
    /\ UNCHANGED <<cliVars, auxVars>>

\* Parameters::new followed by Settings::new with an observer
Parameters_new ==
    /\ Blank
    /\ \E ts \in TimestepInputs, noc \in CyclesInputs, spc \in SavesInputs,
          m \in ModeInputs, nb \in BurnerInputs, o \in BuiltObservers :
        LET r == new(ts, noc, spc, m, nb)
        IN  /\ settings' = IF r.result = "Ok" THEN Made(r.p, o) ELSE NoSettings
            /\ last' = Called("new",
                              [timestep |-> ts, number_of_cycles |-> noc,
                               saves_per_cycle |-> spc, initial_mode |-> m], r)
    /\ ResetRun
    /\ UNCHANGED <<cliVars, auxVars>>

\* Settings::from_file: deserialize, then parameters.init()?
Settings_from_file ==
    /\ Blank
    /\ \E ts \in TimestepInputs, noc \in CyclesInputs, spc \in SavesInputs,
          m \in ModeInputs, nb \in BurnerInputs, o \in FileObservers :
        LET r == init(Fresh(ts, noc, spc, m, nb))
        IN  /\ settings' = IF r.result = "Ok" THEN Made(r.p, o) ELSE NoSettings
            /\ last' = Called("from_file",
                              [timestep |-> ts, number_of_cycles |-> noc,
                               saves_per_cycle |-> spc, initial_mode |-> m], r)
    /\ ResetRun
    /\ UNCHANGED <<cliVars, auxVars>>

Parameters_init ==
    /\ Live /\ Quiescent
    /\ Apply("init", 0, init(settings.parameters))

Parameters_set_timestep ==
    /\ Live /\ Quiescent
    /\ \E ts \in TimestepInputs :
        Apply("set_timestep", ts, set_timestep(settings.parameters, ts))

Parameters_set_number_of_cycles ==
    /\ Live /\ Quiescent
    /\ \E noc \in CyclesInputs :
        Apply("set_number_of_cycles", noc,
              set_number_of_cycles(settings.parameters, noc))

Parameters_set_saves_per_cycle ==
    /\ Live /\ Quiescent
    /\ \E spc \in SavesInputs :
        Apply("set_saves_per_cycle", spc,
              set_saves_per_cycle(settings.parameters, spc))

Parameters_set_initial_mode ==
    /\ Live /\ Quiescent
    /\ \E m \in ModeInputs :
        Apply("set_initial_mode", m, set_initial_mode(settings.parameters, m))

----------------------------------------------------------------------------
(* Settings::run (src/simulate.rs) *)

\* an exclusive upper bound taken for an inclusive one: `1..total_steps`
StepRangeExclusive(total_steps) == 1 .. total_steps - 1

\* the step indices of the loop, `1..(total_steps + 1)`
StepRange(total_steps) == 1 .. total_steps

\* the cadence counted from the first step instead of the skip-th
SaveDueFromFirst(i, skip_per_save) == (i - 1) % skip_per_save = 0

\* the save-cadence test `(ind % skip_per_save) == 0`
SaveDue(i, skip_per_save) == i % skip_per_save = 0

\* the sample handed to Observer::log at step i: the mode after i updates
\* (an acoustic mode and the heat-release mode computed from it) and the time
\* (i as Float) * dt as a fraction
Sample(m, i, ts) == [mode |-> m, hrr_of |-> m, time |-> <<i * ts[1], ts[2]>>]

RunPanic(site) ==
    /\ pc' = "panicked"
    /\ last' = [op |-> "run", arg |-> 0, result |-> "panic", site |-> site]

\* lines 9-17: convert the initial mode, log it at time 0
Settings_run_begin ==
    /\ Live /\ Quiescent
    /\ \E over \in BOOLEAN :
        LET p == settings.parameters
        IN  IF SystemModeRejected(p.initial_mode)
            THEN RunPanic("SystemMode::new") /\ logs' = <<>>
            ELSE IF ObserverLogPanics(settings.observer, over)
            THEN RunPanic("Observer::log") /\ logs' = <<>>
            ELSE /\ pc' = "running"
                 /\ last' = [op |-> "run", arg |-> 0, result |-> "running",
                             site |-> "-"]
                 /\ logs' = <<Sample(0, 0, p.timestep)>>
    /\ ind' = 0
    /\ mode' = 0
    /\ UNCHANGED <<settings, cliVars, auxVars>>

\* one iteration of the loop (lines 19-41): get_rhs, update_mode, the sample
\* every skip_per_save steps
Settings_run_step ==
    /\ pc = "running"
    /\ ind + 1 \in StepRange(settings.parameters.total_steps)
    /\ \E over \in BOOLEAN :
        LET p == settings.parameters
            i == ind + 1
        IN  /\ ind' = i
            /\ mode' = mode + 1
            /\ IF p.skip_per_save = 0
               THEN RunPanic("modulo by zero") /\ logs' = logs
               ELSE IF ~SaveDue(i, p.skip_per_save)
               THEN UNCHANGED <<pc, last, logs>>
               ELSE IF ObserverLogPanics(settings.observer, over)
               THEN RunPanic("Observer::log") /\ logs' = logs
               ELSE /\ logs' = Append(logs, Sample(mode', i, p.timestep))
                    /\ UNCHANGED <<pc, last>>
    /\ UNCHANGED <<settings, cliVars, auxVars>>

\* the loop is exhausted and run returns
Settings_run_return ==
    /\ pc = "running"
    /\ ind + 1 \notin StepRange(settings.parameters.total_steps)
    /\ pc' = "done"
    /\ last' = [op |-> "run", arg |-> 0, result |-> "Ok", site |-> "-"]
    /\ UNCHANGED <<settings, ind, mode, logs, cliVars, auxVars>>

----------------------------------------------------------------------------
(* The command-line driver (src/main.rs) *)

CliIdle == [branch |-> "none", phase |-> "idle", cursor |-> 0]

\* a save target: SaveInfo's path and group; parent is whether
\* Path::parent() of the path is Some, dir whether the directory that should
\* hold the file exists
ExampleTarget ==
    [file |-> "simulation_time_series.hdf5", group |-> 0, parent |-> TRUE,
     dir |-> TRUE]
ExperimentTarget(j) ==
    [file |-> "experiment_simulation.hdf5", group |-> j, parent |-> TRUE,
     dir |-> TRUE]
UserTargets ==
    {[file |-> "user.hdf5", group |-> g, parent |-> TRUE, dir |-> TRUE] :
        g \in 1 .. MaxGroups}
        \union {[file |-> "", group |-> 0, parent |-> FALSE, dir |-> FALSE],
                [file |-> "missing/user.hdf5", group |-> 0, parent |-> TRUE,
                 dir |-> FALSE]}

Key(target) == <<target.file, target.group>>

\* SaveInfo::is_valid against the dataset store (a file that exists is taken
\* to open; File::open fails on a file that is not there, be it for a missing
\* directory)
is_valid(target, groups) ==
    IF ~target.parent THEN "DirectoryNotFound"
    ELSE IF Key(target) \in groups THEN "GroupAlreadyExist"
    ELSE "Ok"

\* one simulation of the batch: its inputs (target, what Settings::from_file
\* does on its settings file: "Ok", "Err" for a missing or malformed file or an
\* Err of Parameters::init, "panic" for the division by zero of
\* Parameters::init; whether Settings::run panics on it) and what has happened
\* to it
Job(target, loads, panics) ==
    [target |-> target, loads |-> loads, panics |-> panics,
     state |-> "pending", checked |-> FALSE, verdict |-> "-", clash |-> FALSE,
     runs |-> 0, saves |-> 0, result |-> "-"]

\* the simulations of each branch of main(): the example and the experiment
\* run Settings::default() (valid mode, time series), the files are arbitrary
UserJobs ==
    {Job(t, x[1], x[2]) :
        t \in UserTargets,
        x \in {<<"Ok", FALSE>>, <<"Ok", TRUE>>, <<"Err", FALSE>>, <<"panic", FALSE>>}}

BranchJobs(branch) ==
    IF branch = "example" THEN {<<Job(ExampleTarget, "Ok", FALSE)>>}
    ELSE IF branch = "experiment"
    THEN {[j \in 1 .. ExperimentRuns |-> Job(ExperimentTarget(j), "Ok", FALSE)]}
    ELSE IF branch = "single" THEN {<<job>> : job \in UserJobs}
    ELSE UNION {[1 .. n -> UserJobs] : n \in 2 .. MaxFiles}

\* the groups the output file of a branch may hold when main() starts
BranchGroups(branch) ==
    IF branch = "example" THEN {Key(ExampleTarget)}
    ELSE IF branch = "experiment"
    THEN {Key(ExperimentTarget(j)) : j \in 1 .. ExperimentRuns}
    ELSE {Key(t) : t \in {u \in UserTargets : u.parent /\ u.dir}}

\* the closure of a simulation has been entered
Entered(job) == job.state # "pending"

\* the closure of a simulation has returned
Finished(job) == job.state \in {"skipped", "ran"}

\* main() reads its arguments and takes a branch
Main_start ==
    /\ cli.phase = "idle"
    /\ \E branch \in {"example", "experiment", "single", "batch"} :
        /\ cli' = [branch |-> branch, phase |-> "simulate", cursor |-> 1]
        /\ jobs' \in BranchJobs(branch)
        /\ store' \in SUBSET BranchGroups(branch)
    /\ UNCHANGED <<auxVars, paramVars, runVars>>

\* Settings::from_file in the two settings-files branches: the single-file
\* branch loads in its first loop, the parallel one inside each closure.  An
\* Err is printed and the simulation skipped; a panic unwinds through the
\* closure and collect() into main()
Load(j) ==
    /\ cli.phase = "simulate"
    /\ cli.branch \in {"single", "batch"}
    /\ jobs[j].state = "pending"
    /\ jobs' = [jobs EXCEPT ![j].state =
                    IF jobs[j].loads = "Ok" THEN "loaded"
                    ELSE IF jobs[j].loads = "Err" THEN "skipped"
                    ELSE "load panicked"]
    /\ cli' = IF jobs[j].loads = "panic"
              THEN [cli EXCEPT !.phase = "aborted"] ELSE cli
    /\ UNCHANGED <<auxVars, paramVars, runVars, store>>

\* run_settings, lines 191-199: the save target is checked, a conflict skips
\* the simulation
Check(j) ==
    /\ cli.phase = "simulate"
    /\ \/ cli.branch = "experiment" /\ jobs[j].state = "pending"
       \/ cli.branch = "batch" /\ jobs[j].state = "loaded"
       \/ cli.branch = "single" /\ jobs[j].state = "loaded" /\ cli.cursor = j
    /\ jobs' = [jobs EXCEPT
                    ![j].checked = TRUE,
                    ![j].verdict = is_valid(jobs[j].target, store),
                    ![j].state = IF is_valid(jobs[j].target, store) = "Ok"
                                 THEN "checked" ELSE "skipped"]
    /\ UNCHANGED <<auxVars, paramVars, runVars, cli, store>>

\* settings.run(): in run_settings after the check (line 201), in the example
\* branch with no check (line 50); a panic ends the process
Run(j) ==
    /\ cli.phase = "simulate"
    /\ \/ cli.branch = "example" /\ jobs[j].state = "pending"
       \/ cli.branch # "example" /\ jobs[j].state = "checked"
    /\ IF jobs[j].panics
       THEN /\ cli' = [cli EXCEPT !.phase = "aborted"]
            /\ jobs' = [jobs EXCEPT ![j].clash = Key(jobs[j].target) \in store,
                                    ![j].runs = @ + 1]
       ELSE /\ cli' = cli
            /\ jobs' = [jobs EXCEPT ![j].clash = Key(jobs[j].target) \in store,
                                    ![j].runs = @ + 1,
                                    ![j].state = "ran"]
    /\ UNCHANGED <<auxVars, paramVars, runVars, store>>

\* the parallel map has been collected (experiment, several files), or the
\* simulation of the branch is over (example, single file): saving starts
Collect ==
    /\ cli.phase = "simulate"
    /\ \A j \in 1 .. Len(jobs) : Finished(jobs[j])
    /\ cli' = [cli EXCEPT !.phase = "save", !.cursor = 1]
    /\ UNCHANGED <<auxVars, paramVars, runVars, jobs, store>>

\* a save loop that gives up at the first failed save
SaveLoopStopsOnErr(k, result, n) == IF result = "Ok" THEN k + 1 ELSE n + 1

\* the save loop goes on to the next SaveData whatever the save returned
\* (save(), lines 212-228; lines 141-155 and 52-61 for the unbatched branches)
SaveLoopNext(k, result, n) == k + 1

\* a save that takes a group that exists for its own
SaveOutcomesOverwriting(target, groups) ==
    IF ~target.parent \/ ~target.dir
    THEN {[result |-> "Err", groups |-> groups]}
    ELSE {[result |-> "Ok", groups |-> groups \union {Key(target)}],
          [result |-> "Err", groups |-> groups]}

\* Observer::save through SaveData::save: File::append fails when the file
\* cannot be opened or created, create_group fails when the group exists, a
\* dataset may fail to be written, otherwise the group is in the store
SaveOutcomes(target, groups) ==
    IF Key(target) \in groups \/ ~target.parent \/ ~target.dir
    THEN {[result |-> "Err", groups |-> groups]}
    ELSE {[result |-> "Ok", groups |-> groups \union {Key(target)}],
          [result |-> "Err", groups |-> groups]}

\* one iteration of the save loop: a None is passed over, a Some is saved and
\* a failure only printed
Save ==
    /\ cli.phase = "save"
    /\ cli.cursor <= Len(jobs)
    /\ LET k == cli.cursor
       IN  IF jobs[k].state # "ran"
           THEN /\ cli' = [cli EXCEPT !.cursor = k + 1]
                /\ UNCHANGED <<jobs, store>>
           ELSE \E o \in SaveOutcomes(jobs[k].target, store) :
                   /\ store' = o.groups
                   /\ jobs' = [jobs EXCEPT ![k].saves = @ + 1,
                                           ![k].result = o.result]
                   /\ cli' = [cli EXCEPT
                                !.cursor = SaveLoopNext(k, o.result, Len(jobs))]
    /\ UNCHANGED <<auxVars, paramVars, runVars>>

\* main() returns, or the panicked process is gone
Main_exit ==
    /\ \/ cli.phase = "save" /\ cli.cursor > Len(jobs)
       \/ cli.phase = "aborted"
    /\ cli' = CliIdle
    /\ jobs' = <<>>
    /\ store' = {}
    /\ UNCHANGED <<auxVars, paramVars, runVars>>

----------------------------------------------------------------------------
(* Mode <-> SystemMode and the describing functions                         *)
(* (src/azimuthal_mode.rs, src/hrr_integral)                                *)
(*                                                                         *)
(* An amplitude is a whole number of units of 2^-ExpMin, so that 1 is the   *)
(* smallest positive amplitude and Pow2(ExpMin) is the amplitude 1.0; ln_a  *)
(* is counted in units of ln 2.  A nature angle is a whole number of units  *)
(* of pi/8; tan_2chi is a whole number and TanMax stands for                *)
(* tan(2.0 * FRAC_PI_4), the largest tangent an angle of the grid has.      *)

NoCall == [op |-> "none"]
NoObserver == [kind |-> "none"]

RECURSIVE Pow2(_)
Pow2(n) == IF n <= 0 THEN 1 ELSE 2 * Pow2(n - 1)

RECURSIVE Log2(_)
Log2(v) == IF v <= 1 THEN 0 ELSE 1 + Log2(v \div 2)

Sign(x) == IF x < 0 THEN -1 ELSE IF x > 0 THEN 1 ELSE 0

\* Float::ln of a positive amplitude
Ln(a) == Log2(a) - ExpMin

\* Float::sqrt, rounded down: the largest r with r * r <= v
Isqrt(v) == CHOOSE r \in 0 .. v : r * r <= v /\ v < (r + 1) * (r + 1)

\* Float::exp: below the exponent range of the float the result is 0.0
ExpFloat(x) == IF x < -ExpMin THEN 0 ELSE Pow2(x + ExpMin)

\* the tangent of the angle itself, not of twice the angle
TanOfChi(chi) == Sign(chi) * (IF Abs(chi) >= 2 * FRAC_PI_4 THEN TanMax
                             ELSE IF Abs(chi) >= FRAC_PI_4 THEN 1 ELSE 0)

\* (2.0 * chi).tan() for |chi| <= pi/4: 0, 1 at pi/8, TanMax at pi/4
Tan2(chi) == Sign(chi) * (IF Abs(chi) >= FRAC_PI_4 THEN TanMax
                          ELSE IF 2 * Abs(chi) >= FRAC_PI_4 THEN 1 ELSE 0)

\* 0.5 * tan_2chi.atan(), cut to the grid: atan returns FRAC_PI_2 itself from
\* TanMax on, so the half is FRAC_PI_4; below it stays inside
HalfAtan(tan_2chi) ==
    Sign(tan_2chi) * (IF Abs(tan_2chi) >= TanMax THEN FRAC_PI_4
                      ELSE IF Abs(tan_2chi) >= 1 THEN FRAC_PI_4 \div 2 ELSE 0)

\* Mode::is_valid
Mode_is_valid(m) == m.amplitude >= 0 /\ Abs(m.nature_angle) <= FRAC_PI_4

\* SystemMode::new through From<Mode>
SystemMode_from(m) ==
    IF SystemModeRejected(m)
    THEN [result |-> "panic", sys |-> 0]
    ELSE [result |-> "Ok",
          sys |-> [ln_a |-> Ln(m.amplitude), nth0 |-> m.orientation_angle,
                   phi |-> m.phase, tan_2chi |-> Tan2(m.nature_angle)]]

\* SystemMode::a and SystemMode::chi
SystemMode_a(sys) == ExpFloat(sys.ln_a)
SystemMode_chi(sys) == HalfAtan(sys.tan_2chi)

\* From<SystemMode> for Mode
Mode_from(sys) ==
    [amplitude |-> SystemMode_a(sys), orientation_angle |-> sys.nth0,
     phase |-> sys.phi, nature_angle |-> SystemMode_chi(sys)]

\* Float::ln of an amplitude that may be 0.0: MinusInf stands for -inf, below
\* every finite ln_a of the model
MinusInf == -(ExpMin + MaxAmpExp + 2)
LnFloat(a) == IF a <= 0 THEN MinusInf ELSE Ln(a)

\* cos and sin of an angle within [-pi/2, pi/2], rounded to a whole number
CosG(x) == IF Abs(x) <= FRAC_PI_4 THEN 1 ELSE 0
SinG(x) == IF Abs(x) >= FRAC_PI_4 THEN Sign(x) ELSE 0

\* AFDFSimplified::new
AFDFSimplified_new(gain_ratio_r) == [gain_ratio_r |-> gain_ratio_r]

\* what #[derive(Default)] would give: gain_ratio_r = 0.0
AFDFSimplified_derived_default == [gain_ratio_r |-> 0]

\* impl Default for AFDFSimplified: Self::new(1.0)
AFDFSimplified_default == AFDFSimplified_new(UnitRatio)

\* ConventionalFDF::new (Default calls it), and a ConventionalFDF read from a
\* configuration: `model` is #[serde(skip)], so it is AFDFSimplified::default()
ConventionalFDF_new == [model |-> AFDFSimplified_new(UnitRatio)]
ConventionalFDF_deserialized == [model |-> AFDFSimplified_default]

\* the gain ratios a caller or a configuration gives a Simplified
RatioInputs == {0, UnitRatio, DefaultRatio}

\* DescribingFunction, by the way it was obtained
DescribingFunctions ==
    {[kind |-> "Conventional", via |-> "new", hrr |-> ConventionalFDF_new],
     [kind |-> "Conventional", via |-> "file", hrr |-> ConventionalFDF_deserialized]}
    \union {[kind |-> "Simplified", via |-> "new", hrr |-> AFDFSimplified_new(r)] :
                r \in RatioInputs}

\* amp_factor of AFDFSimplified::mode, sqrt(1 + (r^2-1)/(r^2+1) * sin(2 chi)),
\* in halves: it leaves [0.75, 1.25] only for a ratio near 0 and chi > 0
AmpFactor(r, chi) ==
    IF r = 0 /\ chi >= FRAC_PI_4 THEN 0
    ELSE IF r = 0 /\ chi > 0 THEN 1
    ELSE 2

\* nature_angle of AFDFSimplified::mode, atan(num / den), on the grid: the
\* two circular modes and r = 1 are fixed, a standing mode is turned towards
\* +pi/4 by r > 1 and towards -pi/4 by r < 1
NatureAngle(r, chi) == IF chi = 0 THEN Sign(r - UnitRatio) ELSE chi

\* a heat-release mode built anew, its orientation angle and phase left at 0
AFDFSimplified_mode_anew(hrr, acoustic_mode) ==
    LET chi == SystemMode_chi(acoustic_mode)
        amplitude ==
            (SystemMode_a(acoustic_mode) * AmpFactor(hrr.gain_ratio_r, chi)) \div 2
        nature_angle == NatureAngle(hrr.gain_ratio_r, chi)
    IN  [ln_a |-> LnFloat(amplitude), nth0 |-> 0, phi |-> 0,
         tan_2chi |-> Tan2(nature_angle)]

\* AFDFSimplified::mode
AFDFSimplified_mode(hrr, acoustic_mode) ==
    LET chi == SystemMode_chi(acoustic_mode)
        amplitude ==
            (SystemMode_a(acoustic_mode) * AmpFactor(hrr.gain_ratio_r, chi)) \div 2
        nature_angle == NatureAngle(hrr.gain_ratio_r, chi)
    IN  [acoustic_mode EXCEPT !.ln_a = LnFloat(amplitude),
                              !.tan_2chi = Tan2(nature_angle)]

\* Saturation::factor in halves: 1 at low amplitude, towards 0 at high
SaturationFactor(a) ==
    IF a <= Pow2(ExpMin) THEN 2 ELSE IF a <= 2 * Pow2(ExpMin) THEN 1 ELSE 0

\* the gain, damping (per step) and noise of a Parameters
Setups == [gain : {1, 2}, damping : {0, 1}, noise : 0 .. MaxNoise]

\* AFDFSimplified::integral with saturated_gain: the zeroth Fourier
\* coefficient n0 is the saturated gain, the second one what the saturation
\* took of a mode that is not circular; NaN when the amplitude is 0.0.
\* The i and j parts (orientation angle, phase) are left out.
AFDFSimplified_integral(hrr, acoustic_mode, setup) ==
    LET hrr_mode == AFDFSimplified_mode(hrr, acoustic_mode)
        a == SystemMode_a(acoustic_mode)
        chi == SystemMode_chi(acoustic_mode)
        delta_chi == SystemMode_chi(hrr_mode) - chi
    IN  IF a = 0
        THEN [nan |-> TRUE, real |-> 0, imag_k |-> 0]
        ELSE LET gain == (setup.gain * SystemMode_a(hrr_mode)) \div a
                 n0 == (gain * SaturationFactor(SystemMode_a(hrr_mode))) \div 2
                 n2n == IF Abs(SystemMode_chi(hrr_mode)) = FRAC_PI_4
                        THEN 0 ELSE gain - n0
             IN  [nan |-> FALSE,
                  real |-> n0 * CosG(delta_chi) - setup.damping
                           + (n2n * CosG(2 * chi + delta_chi)) \div 2,
                  imag_k |-> (n2n * SinG(2 * chi + delta_chi)) \div 2
                             - n0 * SinG(delta_chi)]

\* impl HeatReleaseRate for DescribingFunction, for ConventionalFDF: both
\* variants delegate
DescribingFunction_mode(df, acoustic_mode) ==
    IF df.kind = "Conventional"
    THEN AFDFSimplified_mode(df.hrr.model, acoustic_mode)
    ELSE AFDFSimplified_mode(df.hrr, acoustic_mode)

DescribingFunction_integral(df, acoustic_mode, setup) ==
    IF df.kind = "Conventional"
    THEN AFDFSimplified_integral(df.hrr.model, acoustic_mode, setup)
    ELSE AFDFSimplified_integral(df.hrr, acoustic_mode, setup)

\* the modes and system modes the conversions are tried on
ConvModes ==
    [amplitude : {-1, 0} \union {Pow2(k) : k \in 0 .. MaxAmpExp},
     orientation_angle : {-1, 5}, phase : {0, 3},
     nature_angle : -(FRAC_PI_4 + 1) .. (FRAC_PI_4 + 1)]

ConvSystemModes ==
    [ln_a : -(ExpMin + 1) .. (MaxAmpExp - ExpMin), nth0 : {-1, 5}, phi : {0, 3},
     tan_2chi : -(TanMax + 1) .. (TanMax + 1)]

\* the result has been looked at; the next call can be made
Call_return ==
    /\ conv # NoCall
    /\ conv' = NoCall
    /\ UNCHANGED <<paramVars, runVars, cliVars, obs, sims>>

\* Mode -> SystemMode
Convert_into_SystemMode ==
    /\ conv = NoCall
    /\ \E m \in ConvModes :
        conv' = [op |-> "SystemMode::from", arg |-> m,
                 valid |-> Mode_is_valid(m), out |-> SystemMode_from(m)]
    /\ UNCHANGED <<paramVars, runVars, cliVars, obs, sims>>

\* SystemMode -> Mode
Convert_into_Mode ==
    /\ conv = NoCall
    /\ \E sys \in ConvSystemModes :
        conv' = [op |-> "Mode::from", arg |-> sys, out |-> Mode_from(sys)]
    /\ UNCHANGED <<paramVars, runVars, cliVars, obs, sims>>

\* HeatReleaseRate::mode and ::integral on a describing function
Call_mode ==
    /\ conv = NoCall
    /\ \E df \in DescribingFunctions, sys \in ConvSystemModes :
        conv' = [op |-> "mode", df |-> df, arg |-> sys, arg_after |-> sys,
                 out |-> DescribingFunction_mode(df, sys)]
    /\ UNCHANGED <<paramVars, runVars, cliVars, obs, sims>>

Call_integral ==
    /\ conv = NoCall
    /\ \E df \in DescribingFunctions, sys \in ConvSystemModes, setup \in Setups :
        conv' = [op |-> "integral", df |-> df, arg |-> sys, setup |-> setup,
                 out |-> DescribingFunction_integral(df, sys, setup)]
    /\ UNCHANGED <<paramVars, runVars, cliVars, obs, sims>>

\* Mode -> SystemMode -> Mode
Convert_round_trip ==
    /\ conv = NoCall
    /\ \E m \in ConvModes :
        LET r == SystemMode_from(m)
        IN  /\ r.result = "Ok"
            /\ conv' = [op |-> "round trip", arg |-> m, out |-> Mode_from(r.sys)]
    /\ UNCHANGED <<paramVars, runVars, cliVars, obs, sims>>

----------------------------------------------------------------------------
(* The observers on their own (src/observers/histogram.rs, timeseries.rs)   *)
(* Of a histogram, `a` and `bins` are the lengths of the amplitude vector    *)
(* and of the four angle vectors, `hist` holds the vectors themselves; the  *)
(* bin of index i is the entry i + 1.                                       *)

TWO_PI == 8 * FRAC_PI_4
FRAC_PI_2 == 2 * FRAC_PI_4

\* Rust's % on floats and integers: the sign of the dividend
Rem(num, limit) == Sign(num) * (Abs(num) % limit)

\* modulo() of histogram.rs
modulo(num, limit) == Rem(Rem(num, limit) + limit, limit)

\* get_index wrapping a value on or above the limit instead
get_index_wrapping(num, limit, len) == (modulo(num, limit) * len) \div limit

\* get_index on a bin vector of `len` entries; -1 is `len - 1` of an empty one
get_index(num, limit, len) ==
    IF num >= limit THEN len - 1
    ELSE (modulo(num, limit) * len) \div limit

\* vec![0; n]
Zeros(n) == [i \in 1 .. n |-> 0]

\* HistogramObserver::new; Default and From<SaveInfo> call it
HistogramObserver_new(nbins, a_lim) ==
    [kind |-> "Histogram", state |-> "ok", site |-> "-",
     amplitude_limit |-> a_lim, max_amplitude_limit |-> MaxLimitFactor * a_lim,
     nbins |-> nbins, a |-> nbins, bins |-> nbins, num_values |-> 0,
     hist |-> [a |-> Zeros(nbins), nth0 |-> Zeros(nbins), phi |-> Zeros(nbins),
               chi |-> Zeros(nbins), chi_q |-> Zeros(nbins)],
     logged |-> 0, index |-> <<>>]

\* a HistogramObserver read by serde: the bin vectors and num_values are
\* #[serde(skip)] and stay empty; Settings::from_file has no set_nbins
HistogramObserver_deserialized(nbins, a_lim, max) ==
    [HistogramObserver_new(nbins, a_lim) EXCEPT
        !.max_amplitude_limit = max, !.a = 0, !.bins = 0,
        !.hist = [a |-> <<>>, nth0 |-> <<>>, phi |-> <<>>, chi |-> <<>>,
                  chi_q |-> <<>>]]

\* TimeSeriesObserver: the samples pushed so far
TimeSeriesObserver_new ==
    [kind |-> "TimeSeries", state |-> "ok", site |-> "-", num_values |-> 0,
     logged |-> 0, index |-> <<>>]

\* an expansion that stretches the bins it has over the wider range
expand_amplitude_range_stretching(h, new_amplitude) ==
    LET extension_factor == new_amplitude \div h.amplitude_limit
    IN  IF h.amplitude_limit * extension_factor > h.max_amplitude_limit
        THEN [h EXCEPT !.state = "panicked", !.site = "amplitude ceiling"]
        ELSE [h EXCEPT !.amplitude_limit = @ * (1 + extension_factor)]

\* expand_amplitude_range
expand_amplitude_range(h, new_amplitude) ==
    LET extension_factor == new_amplitude \div h.amplitude_limit
    IN  IF h.amplitude_limit * extension_factor > h.max_amplitude_limit
        THEN [h EXCEPT !.state = "panicked", !.site = "amplitude ceiling"]
        ELSE [h EXCEPT !.a = (1 + extension_factor) * h.a,
                       !.hist.a = @ \o Zeros(extension_factor * h.a),
                       !.amplitude_limit = @ * (1 + extension_factor)]

\* bin_vec[index] += 1
Bump(bin_vec, index) == [bin_vec EXCEPT ![index + 1] = @ + 1]

\* the increments of HistogramObserver::log up to the first index that lies
\* outside its vector (all five when none does)
Bumped(hist, index, len) ==
    LET ok(i) == \A q \in 1 .. i : index[q] >= 0 /\ index[q] < len[q]
    IN  [a |-> IF ok(1) THEN Bump(hist.a, index[1]) ELSE hist.a,
         nth0 |-> IF ok(2) THEN Bump(hist.nth0, index[2]) ELSE hist.nth0,
         phi |-> IF ok(3) THEN Bump(hist.phi, index[3]) ELSE hist.phi,
         chi |-> IF ok(4) THEN Bump(hist.chi, index[4]) ELSE hist.chi,
         chi_q |-> IF ok(5) THEN Bump(hist.chi_q, index[5]) ELSE hist.chi_q]

\* HistogramObserver::log: the five indices in the order of the code, the
\* first one outside its vector panics
HistogramObserver_log(h0, acoustic, hrr_chi) ==
    LET h == IF acoustic.amplitude >= h0.amplitude_limit
             THEN expand_amplitude_range(h0, acoustic.amplitude) ELSE h0
        index == <<get_index(acoustic.amplitude, h.amplitude_limit, h.a),
                   get_index(acoustic.orientation_angle, TWO_PI, h.bins),
                   get_index(acoustic.phase, TWO_PI, h.bins),
                   get_index(acoustic.nature_angle, FRAC_PI_2, h.bins),
                   get_index(hrr_chi, FRAC_PI_2, h.bins)>>
        len == <<h.a, h.bins, h.bins, h.bins, h.bins>>
    IN  IF h.state = "panicked" THEN [h EXCEPT !.logged = acoustic.amplitude]
        ELSE IF \E i \in 1 .. 5 : index[i] < 0 \/ index[i] >= len[i]
        THEN [h EXCEPT !.state = "panicked", !.site = "index out of bounds",
                       !.hist = Bumped(h.hist, index, len),
                       !.logged = acoustic.amplitude, !.index = index]
        ELSE [h EXCEPT !.num_values = @ + 1, !.logged = acoustic.amplitude,
                       !.hist = Bumped(h.hist, index, len),
                       !.index = index]

\* Observer::log
Observer_log_on(o, acoustic, hrr_chi) ==
    IF o.kind = "Histogram" THEN HistogramObserver_log(o, acoustic, hrr_chi)
    ELSE [o EXCEPT !.num_values = @ + 1, !.logged = acoustic.amplitude]

LimitInputs == 1 .. MaxLimit

\* the samples an observer is sent: amplitudes inside the first range, just
\* above the widest first range, on each ceiling and beyond every ceiling,
\* angles inside and outside one turn
LoggedModes ==
    [amplitude : {0, 1, MaxLimit + 1, (MaxLimitFactor + 1) * MaxLimit + 1}
                    \union {MaxLimitFactor * a_lim : a_lim \in LimitInputs},
     orientation_angle : {-1, TWO_PI + 1}, phase : {3},
     nature_angle : {-FRAC_PI_4, FRAC_PI_4}]

\* the public construction paths
Observer_default ==
    /\ obs = NoObserver
    /\ obs' \in {TimeSeriesObserver_new}
                \union {HistogramObserver_new(HistBins, a) : a \in LimitInputs}
    /\ UNCHANGED <<paramVars, runVars, cliVars, conv, sims>>

HistogramObserver_new_call ==
    /\ obs = NoObserver
    /\ \E nbins \in 1 .. HistBins, a_lim \in LimitInputs :
        obs' = HistogramObserver_new(nbins, a_lim)
    /\ UNCHANGED <<paramVars, runVars, cliVars, conv, sims>>

\* the observer of a Settings read by Settings::from_file
Observer_from_file ==
    /\ obs = NoObserver
    /\ obs' \in {TimeSeriesObserver_new}
                \union {HistogramObserver_deserialized(n, a, MaxLimitFactor * a) :
                            n \in 1 .. HistBins, a \in LimitInputs}
    /\ UNCHANGED <<paramVars, runVars, cliVars, conv, sims>>

\* HistogramObserver::set_amplitude_limit, on a histogram that holds no
\* sample yet (Observer::new_histogram calls it right after new)
HistogramObserver_set_amplitude_limit ==
    /\ obs.kind = "Histogram" /\ obs.state = "ok"
    /\ obs.num_values = 0
    /\ \E a_lim \in LimitInputs : obs' = [obs EXCEPT !.amplitude_limit = a_lim]
    /\ UNCHANGED <<paramVars, runVars, cliVars, conv, sims>>

Observer_log ==
    /\ obs.kind # "none" /\ obs.state = "ok"
    /\ obs.num_values < MaxLogs
    /\ \E m \in LoggedModes, hrr_chi \in {-FRAC_PI_4 \div 2, FRAC_PI_4} :
        obs' = Observer_log_on(obs, m, hrr_chi)
    /\ UNCHANGED <<paramVars, runVars, cliVars, conv, sims>>

Observer_drop ==
    /\ obs.kind # "none"
    /\ obs' = NoObserver
    /\ UNCHANGED <<paramVars, runVars, cliVars, conv, sims>>

----------------------------------------------------------------------------
(* The simulations of a parallel batch, step by step (src/simulate.rs,      *)
(* src/main.rs).  The timestep is one unit: gain, damping and noise are     *)
(* counted per step.  A float beyond the range of the model is cut to the   *)
(* end of the range, which stands for everything beyond it.                 *)

\* the closures of the parallel map (two of them)
SimRuns == {1, 2}

Clamp(x, lo, hi) == IF x < lo THEN lo ELSE IF x > hi THEN hi ELSE x

\* the four normal samples of RNG::get_random; the real and the k part
Draws ==
    {[real |-> -BigDraw, imag_k |-> 0], [real |-> 0, imag_k |-> -BigDraw],
     [real |-> 1, imag_k |-> 1]}

\* the noise taken at full strength whatever the noise parameter is
RelativeNoiseUnscaled(noise, a) == Pow2(ExpMin) \div a

\* relative_noise of get_rhs, noise / (a * sqrt(2)), for a > 0
RelativeNoise(noise, a) == (noise * Pow2(ExpMin)) \div a

\* nd_noise_sq of deterministic_stochastic, noise^2 / (4 a^2), for a > 0
NdNoiseSq(noise, a) ==
    (noise * noise * Pow2(ExpMin) * Pow2(ExpMin)) \div (4 * a * a)

\* Settings::get_rhs: the describing function's integral and
\* deterministic_stochastic, then the draw times relative_noise.  With a
\* zero amplitude the quotients are 0/0 or x/0 and the sum is NaN.  The i
\* and j parts are left at 0.
get_rhs(cfg, sys, draw) ==
    LET a == SystemMode_a(sys)
        hrr_integral == DescribingFunction_integral(cfg.df, sys, cfg.setup)
    IN  IF a = 0 \/ hrr_integral.nan
        THEN [nan |-> TRUE, real |-> 0, imag_i |-> 0, imag_j |-> 0, imag_k |-> 0]
        ELSE [nan |-> FALSE,
              real |-> hrr_integral.real + NdNoiseSq(cfg.setup.noise, a)
                       + draw.real * RelativeNoise(cfg.setup.noise, a),
              imag_i |-> 0, imag_j |-> 0,
              imag_k |-> hrr_integral.imag_k
                         + NdNoiseSq(cfg.setup.noise, a) * sys.tan_2chi
                         + draw.imag_k * RelativeNoise(cfg.setup.noise, a)]

\* 1 / cos(2 chi) for |chi| <= pi/4 is sqrt(1 + tan(2 chi)^2), rounded down,
\* and 1 / cos(2 chi)^2 is 1 + tan(2 chi)^2
Sec2chi(chi) == Isqrt(1 + Tan2(chi) * Tan2(chi))
SecSq2chi(chi) == 1 + Tan2(chi) * Tan2(chi)

\* an update that changes tan_2chi first and reads the mode afterwards
update_mode_in_sequence(sys, rhs) ==
    LET tan_2chi == Clamp(sys.tan_2chi
                            - 2 * rhs.imag_k * SecSq2chi(SystemMode_chi(sys)),
                          -(TanMax + 1), TanMax + 1)
        chi == HalfAtan(tan_2chi)
    IN  [ln_a |-> Clamp(sys.ln_a + rhs.real, MinusInf, MaxAmpExp - ExpMin),
         nth0 |-> sys.nth0 + rhs.imag_i - tan_2chi * rhs.imag_j,
         phi |-> sys.phi + rhs.imag_j * Sec2chi(chi),
         tan_2chi |-> tan_2chi]

\* Settings::update_mode: chi and tan_2chi are read before the four updates
update_mode(sys, rhs) ==
    LET chi == SystemMode_chi(sys)
        tan_2chi == sys.tan_2chi
    IN  [ln_a |-> Clamp(sys.ln_a + rhs.real, MinusInf, MaxAmpExp - ExpMin),
         nth0 |-> sys.nth0 + rhs.imag_i - tan_2chi * rhs.imag_j,
         phi |-> sys.phi + rhs.imag_j * Sec2chi(chi),
         tan_2chi |-> Clamp(sys.tan_2chi - 2 * rhs.imag_k * SecSq2chi(chi),
                            -(TanMax + 1), TanMax + 1)]

\* the right-hand sides update_mode is tried on
RhsInputs == [real : {-1, 1}, imag_i : {0, 1}, imag_j : {0, 1}, imag_k : {-1, 0, 1}]

\* Settings::update_mode on its own
Call_update_mode ==
    /\ conv = NoCall
    /\ \E sys \in ConvSystemModes, rhs \in RhsInputs :
        conv' = [op |-> "update_mode", arg |-> sys, rhs |-> rhs,
                 out |-> update_mode(sys, rhs)]
    /\ UNCHANGED <<paramVars, runVars, cliVars, obs, sims>>

\* the configurations of the batch: Settings::default() with the fields the
\* closure sets, or a settings file
SimConfigs ==
    [setup : [gain : {1}, damping : {1}, noise : {0, MaxNoise}],
     df : {d \in DescribingFunctions : d.kind = "Conventional" /\ d.via = "new"},
     initial_mode : {[amplitude |-> 1, orientation_angle |-> 0, phase |-> 0,
                      nature_angle |-> FRAC_PI_4],
                     [amplitude |-> Pow2(ExpMin + 1), orientation_angle |-> 0,
                      phase |-> 0, nature_angle |-> 0]}]

\* one simulation before Settings::run
SimFresh(cfg) ==
    [cfg |-> cfg, pc |-> "ready", ind |-> 0, nan |-> FALSE,
     sys |-> SystemMode_from(cfg.initial_mode).sys, logs |-> <<>>, draws |-> <<>>]

\* what Observer::log is handed
SimSample(cfg, sys, nan, i) ==
    [mode |-> sys, hrr_mode |-> DescribingFunction_mode(cfg.df, sys),
     nan |-> nan, time |-> i]

\* every closure working on the Settings of the first one
SharedSettings(r) == 1

\* the Settings a closure works on: the one it built itself (main.rs:91, 165)
OwnSettings(r) == r

\* the parallel map starts: one closure per gain factor or settings file
Sim_start ==
    /\ sims = <<>>
    /\ sims' \in [SimRuns -> {SimFresh(cfg) : cfg \in SimConfigs}]
    /\ UNCHANGED <<paramVars, runVars, cliVars, conv, obs>>

\* Settings::run, lines 9-11: the initial mode is logged
Sim_begin(r) ==
    /\ sims # <<>>
    /\ sims[r].pc = "ready"
    /\ LET k == OwnSettings(r)
           run == sims[k]
       IN  sims' = [sims EXCEPT
                ![k].pc = "running",
                ![k].logs = Append(@, SimSample(run.cfg, run.sys, FALSE, 0))]
    /\ UNCHANGED <<paramVars, runVars, cliVars, conv, obs>>

\* one iteration of the loop with skip_per_save = 1: get_rhs with a draw of
\* the closure's noise source, update_mode, the sample
Sim_step(r) ==
    /\ sims # <<>>
    /\ sims[r].pc = "running"
    /\ sims[r].ind + 1 \in StepRange(SimSteps)
    /\ \E draw \in Draws :
        LET k == OwnSettings(r)
            run == sims[k]
            rhs == get_rhs(run.cfg, run.sys, draw)
            nan == run.nan \/ rhs.nan
            sys == IF nan THEN run.sys ELSE update_mode(run.sys, rhs)
            drawn == [sims EXCEPT ![r].draws = Append(@, draw)]
        IN  sims' = [drawn EXCEPT
                ![k].ind = run.ind + 1,
                ![k].nan = nan,
                ![k].sys = sys,
                ![k].logs = Append(@, SimSample(run.cfg, sys, nan, run.ind + 1))]
    /\ UNCHANGED <<paramVars, runVars, cliVars, conv, obs>>

\* Settings::run returns
Sim_return(r) ==
    /\ sims # <<>>
    /\ sims[r].pc = "running"
    /\ sims[r].ind + 1 \notin StepRange(SimSteps)
    /\ sims' = [sims EXCEPT ![r].pc = "done"]
    /\ UNCHANGED <<paramVars, runVars, cliVars, conv, obs>>

\* collect(): every closure has returned
Sim_collect ==
    /\ sims # <<>>
    /\ \A r \in SimRuns : sims[r].pc = "done"
    /\ sims' = <<>>
    /\ UNCHANGED <<paramVars, runVars, cliVars, conv, obs>>

----------------------------------------------------------------------------
(* Fourier::coefficient (src/fourier.rs)                                    *)
(*                                                                         *)
(* Here an angle is a whole number of units of pi/6, so that the burner     *)
(* grids of 1, 2, 3, 4, 6 and 12 burners and their harmonics are exact.     *)
(* A number is a pair <<a, b>> standing for a + b * sqrt(3); a Float is a   *)
(* record [num, den] standing for num / den, and 0 / 0 is NaN.  A signal    *)
(* sample is counted in halves, a cosine or sine in halves, and a sum of    *)
(* their products in quarters.                                              *)

\* a + b * sqrt(3)
Add3(x, y) == <<x[1] + y[1], x[2] + y[2]>>
Mul3(x, y) == <<x[1] * y[1] + 3 * x[2] * y[2], x[1] * y[2] + x[2] * y[1]>>
Scale3(k, x) == <<k * x[1], k * x[2]>>
Sign3(x) ==
    IF x[1] >= 0 /\ x[2] >= 0 THEN (IF x = <<0, 0>> THEN 0 ELSE 1)
    ELSE IF x[1] <= 0 /\ x[2] <= 0 THEN -1
    ELSE IF x[1] > 0 THEN Sign(x[1] * x[1] - 3 * x[2] * x[2])
    ELSE Sign(3 * x[2] * x[2] - x[1] * x[1])

\* Float::cos and Float::sin, doubled
Cos2(x) ==
    LET k == x % (2 * PI)
    IN  IF k = 0 THEN <<2, 0>>
        ELSE IF k \in {1, 11} THEN <<0, 1>>
        ELSE IF k \in {2, 10} THEN <<1, 0>>
        ELSE IF k \in {3, 9} THEN <<0, 0>>
        ELSE IF k \in {4, 8} THEN <<-1, 0>>
        ELSE IF k \in {5, 7} THEN <<0, -1>>
        ELSE <<-2, 0>>

Sin2(x) == Cos2(x - PI \div 2)

\* Float::atan2(sin_term, cos_term): the angle of the grid, in (-pi, pi],
\* that lies nearest to the direction of (cos_term, sin_term); 0 for (0, 0)
Atan2(sin_term, cos_term) ==
    LET along(phi) == Add3(Mul3(cos_term, Cos2(phi)), Mul3(sin_term, Sin2(phi)))
    IN  IF sin_term = <<0, 0>> /\ cos_term = <<0, 0>> THEN 0
        ELSE CHOOSE phi \in (1 - PI) .. PI :
                \A psi \in (1 - PI) .. PI :
                    Sign3(Add3(along(phi), Scale3(-1, along(psi)))) >= 0

NaN == [num |-> <<0, 0>>, den |-> 0]

\* the burner grid of Parameters::init: dtheta * ind for ind in 0..number_of_burners
EquallySpaced(number_of_burners) ==
    [k \in 1 .. number_of_burners |-> (k - 1) * ((2 * PI) \div number_of_burners)]

\* the burner counts whose grid the angles of the model hold
BurnerCounts == {n \in 0 .. DefaultBurners : n = 0 \/ (2 * PI) % n = 0}

\* signal.iter().sum()
RECURSIVE SignalSum(_)
SignalSum(signal) ==
    IF signal = <<>> THEN <<0, 0>>
    ELSE Add3(signal[1], SignalSum(Tail(signal)))

\* the divisor of the mean taken from the sample locations
MeanDivisorOfThetas(thetas, signal) == Len(thetas)

\* signal.len() as Float
MeanDivisor(thetas, signal) == Len(signal)

\* the loop over thetas.iter().zip(signal): sin_term for sine, else cos_term,
\* after n pairs
RECURSIVE TrigSum(_, _, _, _, _, _)
TrigSum(thetas, signal, order, ntheta0, sine, n) ==
    IF n = 0 THEN <<0, 0>>
    ELSE LET idth == order * thetas[n] - ntheta0
         IN  Add3(TrigSum(thetas, signal, order, ntheta0, sine, n - 1),
                  Mul3(signal[n], IF sine THEN Sin2(idth) ELSE Cos2(idth)))

\* a pre_factor that is 1.0 only when twice the order is the number of points
PreFactorExact(order, thetas) == IF 2 * order = Len(thetas) THEN 1 ELSE 2

\* pre_factor
PreFactor(order, thetas) == IF order = Len(thetas) \div 2 THEN 1 ELSE 2

\* the normalised sin_term and cos_term of Fourier::coefficient, order > 0
Fourier_terms(thetas, signal, order, ntheta0) ==
    LET pairs == IF Len(thetas) < Len(signal) THEN Len(thetas) ELSE Len(signal)
        pre_factor == PreFactor(order, thetas)
        n_terms == Len(thetas)
    IN  [sin_term |->
            [num |-> Scale3(pre_factor,
                            TrigSum(thetas, signal, order, ntheta0, TRUE, pairs)),
             den |-> 4 * n_terms],
         cos_term |->
            [num |-> Scale3(pre_factor,
                            TrigSum(thetas, signal, order, ntheta0, FALSE, pairs)),
             den |-> 4 * n_terms]]

\* Fourier::coefficient.  The amplitude of an order > 0 is the square root of
\* num, over den.
Fourier_coefficient(thetas, signal, order, ntheta0) ==
    IF order = 0
    THEN [amplitude |-> [root |-> FALSE, num |-> SignalSum(signal),
                         den |-> 2 * MeanDivisor(thetas, signal)],
          phase |-> NaN]
    ELSE LET t == Fourier_terms(thetas, signal, order, ntheta0)
         IN  [amplitude |->
                [root |-> TRUE,
                 num |-> Add3(Mul3(t.sin_term.num, t.sin_term.num),
                              Mul3(t.cos_term.num, t.cos_term.num)),
                 den |-> t.sin_term.den],
              phase |->
                IF t.sin_term.den = 0 THEN NaN
                ELSE [num |-> <<Atan2(t.sin_term.num, t.cos_term.num), 0>>,
                      den |-> order]]

\* the signals, sample locations, orders and reference angles of a call
RECURSIVE SeqsUpTo(_, _)
SeqsUpTo(S, n) ==
    IF n = 0 THEN {<<>>}
    ELSE LET shorter == SeqsUpTo(S, n - 1)
         IN  shorter \union {Append(q, x) : q \in shorter, x \in S}

SignalInputs == SeqsUpTo({<<2 * v, 0>> : v \in 0 .. MaxSample}, MaxSignalLen)
AngleInputs == {0, PI \div 2}

Call_coefficient ==
    /\ conv = NoCall
    /\ \E n \in BurnerCounts, signal \in SignalInputs,
          order \in 0 .. MaxOrder, ntheta0 \in AngleInputs :
        LET thetas == EquallySpaced(n)
        IN  conv' = [op |-> "coefficient", thetas |-> thetas, signal |-> signal,
                     order |-> order, ntheta0 |-> ntheta0,
                     terms |-> Fourier_terms(thetas, signal, order, ntheta0),
                     out |-> Fourier_coefficient(thetas, signal, order, ntheta0)]
    /\ UNCHANGED <<paramVars, runVars, cliVars, obs, sims>>

\* the second call of AFDFSimplified::integral: the order is 2 * mode_order,
\* the sample locations are the burner grid, one gain value per burner
Integral_fourier2n ==
    /\ conv = NoCall
    /\ \E mode_order \in 0 .. MaxOrder \div 2, number_of_burners \in BurnerCounts,
          gain \in 1 .. MaxSample, nth0 \in AngleInputs :
        LET thetas == EquallySpaced(number_of_burners)
            gain_values == [k \in 1 .. number_of_burners |->
                                <<2 * (IF k = 1 THEN gain ELSE 1), 0>>]
        IN  conv' = [op |-> "fourier2n", mode_order |-> mode_order,
                     number_of_burners |-> number_of_burners,
                     thetas |-> thetas, signal |-> gain_values,
                     order |-> 2 * mode_order, ntheta0 |-> nth0,
                     terms |-> Fourier_terms(thetas, gain_values, 2 * mode_order, nth0),
                     out |-> Fourier_coefficient(thetas, gain_values,
                                                 2 * mode_order, nth0)]
    /\ UNCHANGED <<paramVars, runVars, cliVars, obs, sims>>

\* the synthetic signal of the tests and of the example:
\* n0 + n2 * cos(order * (theta - thi) - nth0), in halves
Synthetic(thetas, n0, n2, order, thi, nth0) ==
    [k \in 1 .. Len(thetas) |->
        Add3(<<2 * n0, 0>>, Scale3(n2, Cos2(order * (thetas[k] - thi) - nth0)))]

\* test::nonzero_fourier_coeff and the example: the zeroth coefficient and
\* the one of the injected order
Call_synthetic ==
    /\ conv = NoCall
    /\ \E n \in BurnerCounts \ {0}, order \in 1 .. MaxOrder,
          n0 \in 0 .. MaxSample, n2 \in 1 .. MaxSample,
          thi \in -1 .. 1, nth0 \in AngleInputs :
        LET thetas == EquallySpaced(n)
            sig == Synthetic(thetas, n0, n2, order, thi, nth0)
        IN  conv' = [op |-> "synthetic", n_points |-> n, order |-> order,
                     n0 |-> n0, n2 |-> n2, thi |-> thi, nth0 |-> nth0,
                     zeroth |-> Fourier_coefficient(thetas, sig, 0, nth0),
                     out |-> Fourier_coefficient(thetas, sig, order, nth0)]
    /\ UNCHANGED <<paramVars, runVars, cliVars, obs, sims>>

----------------------------------------------------------------------------
(* Saturation::factor (src/saturation.rs)                                   *)
(*                                                                         *)
(* A local amplitude and kappa are whole numbers; a factor is a whole       *)
(* number of units of 2^-ExpMin, as an amplitude is, and the exponent of    *)
(* Float::exp is counted in units of ln 2.                                  *)

\* the largest finite Float; a square above it is inf
FloatMax == Pow2(2 * MaxAmpExp)

\* 2.0 / (1.0 + (1.0 + (kappa * a).powi(2)).sqrt()), rounded up to the grid;
\* 2.0 / inf is 0.0
Tangent_factor(kappa, a) ==
    LET sq == (kappa * a) * (kappa * a)
    IN  IF sq > FloatMax THEN 0
        ELSE LET den == 1 + Isqrt(1 + sq)
             IN  (2 * Pow2(ExpMin) + den - 1) \div den

\* (-kappa * a).exp()
Exponential_factor(kappa, a) == ExpFloat(-(kappa * a))

\* Saturation::factor
Saturation_factor(saturation, local_amplitudes) ==
    [i \in 1 .. Len(local_amplitudes) |->
        IF saturation.kind = "Tangent"
        THEN Tangent_factor(saturation.kappa, local_amplitudes[i])
        ELSE Exponential_factor(saturation.kappa, local_amplitudes[i])]

\* the saturations with kappa > 0 and the local amplitudes of a call
Saturations == [kind : {"Tangent", "Exponential"}, kappa : 1 .. MaxKappa]
LocalAmplitudes ==
    SeqsUpTo({0} \union {Pow2(k) : k \in 0 .. MaxAmpExp + 1}, MaxBurners)

Call_factor ==
    /\ conv = NoCall
    /\ \E saturation \in Saturations, local_amplitudes \in LocalAmplitudes :
        conv' = [op |-> "factor", saturation |-> saturation,
                 arg |-> local_amplitudes,
                 out |-> Saturation_factor(saturation, local_amplitudes)]
    /\ UNCHANGED <<paramVars, runVars, cliVars, obs, sims>>

----------------------------------------------------------------------------

Init ==
    /\ settings = NoSettings
    /\ last = [op |-> "none", arg |-> 0, result |-> "Ok", site |-> "-"]
    /\ pc = "idle"
    /\ ind = 0
    /\ mode = 0
    /\ logs = <<>>
    /\ cli = CliIdle
    /\ jobs = <<>>
    /\ store = {}
    /\ conv = NoCall
    /\ obs = NoObserver
    /\ sims = <<>>

Next ==
    \/ Drop
    \/ Parameters_new
    \/ Settings_from_file
    \/ Parameters_init
    \/ Parameters_set_timestep
    \/ Parameters_set_number_of_cycles
    \/ Parameters_set_saves_per_cycle
    \/ Parameters_set_initial_mode
    \/ Settings_run_begin
    \/ Settings_run_step
    \/ Settings_run_return

Spec == Init /\ [][Next]_vars

NextCli ==
    \/ Main_start
    \/ \E j \in 1 .. Len(jobs) : Load(j)
    \/ \E j \in 1 .. Len(jobs) : Check(j)
    \/ \E j \in 1 .. Len(jobs) : Run(j)
    \/ Collect
    \/ Save
    \/ Main_exit

SpecCli == Init /\ [][NextCli]_vars

NextConv ==
    \/ Convert_into_SystemMode
    \/ Convert_into_Mode
    \/ Convert_round_trip
    \/ Call_mode
    \/ Call_integral
    \/ Call_update_mode
    \/ Call_return

SpecConv == Init /\ [][NextConv]_vars

NextObs ==
    \/ Observer_default
    \/ HistogramObserver_new_call
    \/ Observer_from_file
    \/ HistogramObserver_set_amplitude_limit
    \/ Observer_log
    \/ Observer_drop

SpecObs == Init /\ [][NextObs]_vars

NextSim ==
    \/ Sim_start
    \/ \E r \in SimRuns : Sim_begin(r)
    \/ \E r \in SimRuns : Sim_step(r)
    \/ \E r \in SimRuns : Sim_return(r)
    \/ Sim_collect

SpecSim == Init /\ [][NextSim]_vars

NextFourier ==
    \/ Call_coefficient
    \/ Integral_fourier2n
    \/ Call_synthetic
    \/ Call_return

SpecFourier == Init /\ [][NextFourier]_vars

NextSat ==
    \/ Call_factor
    \/ Call_return

SpecSat == Init /\ [][NextSat]_vars

----------------------------------------------------------------------------
(* The schedule and the run: claims C1 - C8 *)

ErrResults == {"Timestep", "Saving", "NegativeNumber", "Mode"}
Setters == {"set_timestep", "set_number_of_cycles", "set_saves_per_cycle"}

\* the derived fields as the specification defines them from the stored
\* inputs; a count is never negative, so the ceiling of a negative quotient
\* is read as 0, as the conversion to usize would give
DerivedAgree(p) ==
    /\ p.steps_per_cycle * 2 * p.timestep[1] <= 2 * p.timestep[2] + p.timestep[1]
    /\ (p.steps_per_cycle + 1) * 2 * p.timestep[1] > 2 * p.timestep[2] + p.timestep[1]
    /\ IF p.number_of_cycles <= 0
       THEN p.total_steps = 0
       ELSE /\ (p.total_steps - 1) * NcDen * p.timestep[1]
                    < p.number_of_cycles * p.timestep[2]
            /\ p.total_steps * NcDen * p.timestep[1]
                    >= p.number_of_cycles * p.timestep[2]
    /\ p.saves_per_cycle > 0
    /\ p.skip_per_save = p.steps_per_cycle \div p.saves_per_cycle
    /\ p.skip_per_save > 0
    /\ p.num_steps_to_save = p.total_steps \div p.skip_per_save

\* C1: after any sequence of calls to new, init and the three setters, whether
\* they return Ok or Err, the derived fields of the Parameters agree with its
\* stored inputs: steps_per_cycle = round(1/timestep), total_steps =
\* ceil(number_of_cycles/timestep), skip_per_save = steps_per_cycle div
\* saves_per_cycle, num_steps_to_save = total_steps div skip_per_save.
C1_DerivedFieldsAgree == Live => DerivedAgree(settings.parameters)

ScheduleValid(timestep, number_of_cycles, saves_per_cycle) ==
    /\ 0 < timestep[1] /\ timestep[1] <= timestep[2]
    /\ saves_per_cycle >= 2
    /\ number_of_cycles >= 0

\* C2: every Parameters value that reaches Settings::run satisfies
\* 0 < timestep <= 1, saves_per_cycle >= 2 and number_of_cycles >= 0, and a
\* configuration violating one of these is rejected with a ParametersError
\* when it is built, by Parameters::new or by Settings::from_file (stated as:
\* building it does not return Ok).
C2_RunOnlyOnValidSchedule ==
    /\ pc \in {"running", "done", "panicked"} =>
        ScheduleValid(settings.parameters.timestep,
                      settings.parameters.number_of_cycles,
                      settings.parameters.saves_per_cycle)
    /\ (/\ last.op \in {"new", "from_file"}
        /\ ~ScheduleValid(last.arg.timestep, last.arg.number_of_cycles,
                          last.arg.saves_per_cycle))
       => last.result # "Ok"

\* C3: for every timestep in (0,1], saves_per_cycle >= 2 and number_of_cycles
\* >= 0, Parameters::new returns Ok with skip_per_save >= 1, and no division
\* or modulo by a zero skip_per_save happens, neither while num_steps_to_save
\* is derived nor in the save-cadence test of the loop.
C3_ValidScheduleNeverDividesByZero ==
    /\ (/\ last.op = "new"
        /\ ScheduleValid(last.arg.timestep, last.arg.number_of_cycles,
                         last.arg.saves_per_cycle))
       => /\ last.result = "Ok"
          /\ Live
          /\ settings.parameters.skip_per_save >= 1
    /\ last.site # "modulo by zero"

\* C4: an initial mode with amplitude <= 0 or |nature_angle| > pi/4 is
\* rejected by Parameters::new and by set_initial_mode (neither returns Ok),
\* and never makes Settings::run fail once it has been entered.
C4_InvalidModeRejectedEagerly ==
    /\ (last.op = "new" /\ SystemModeRejected(last.arg.initial_mode))
       => last.result # "Ok"
    /\ (last.op = "set_initial_mode" /\ SystemModeRejected(last.arg))
       => last.result # "Ok"
    /\ ~(last.op = "run" /\ last.site = "SystemMode::new")

\* C5: when set_timestep, set_number_of_cycles or set_saves_per_cycle returns
\* Err, the Parameters value is exactly what it was before the call.
C5_ErrLeavesParametersUnchanged ==
    [][(last'.op \in Setters /\ last'.result \in ErrResults)
        => settings' = settings]_vars

\* C6: a call of Settings::run that returns has made exactly
\* num_steps_to_save + 1 calls to Observer::log, the initial sample and
\* floor(total_steps / skip_per_save) periodic ones; timestep = 1e-4,
\* saves_per_cycle = 50, number_of_cycles = 1 give total_steps = 10000,
\* steps_per_cycle = 10000, skip_per_save = 200, num_steps_to_save = 50, that
\* is 51 samples.
C6_LogCount ==
    /\ pc = "done" =>
        /\ Len(logs) = settings.parameters.num_steps_to_save + 1
        /\ Len(logs) = 1 + (settings.parameters.total_steps
                                \div settings.parameters.skip_per_save)
    /\ Derive(NcDen, <<1, 10000>>, 50) =
        [panic |-> FALSE, total_steps |-> 10000, steps_per_cycle |-> 10000,
         skip_per_save |-> 200, num_steps_to_save |-> 50]

\* a run has returned after samples were both taken and skipped
C6_Witness ==
    /\ pc = "done"
    /\ settings.parameters.skip_per_save >= 2
    /\ settings.parameters.num_steps_to_save >= 2
    /\ Len(logs) = 3

\* C7: Settings::run always terminates, and does so after exactly total_steps
\* state updates, one per step index 1..=total_steps, with no early exit.
C7_RunEndsAfterTotalSteps ==
    pc \in {"done", "panicked"} =>
        /\ pc = "done"
        /\ ind = settings.parameters.total_steps
        /\ mode = settings.parameters.total_steps

\* the samples a run has sent once it has completed step k: the initial mode
\* at time 0, then the mode after step i at time i * timestep for every
\* multiple i of skip_per_save up to k
SamplesUpTo(k, p) ==
    LET all == [i \in 1 .. k |->
                    [mode |-> i, hrr_of |-> i,
                     time |-> <<i * p.timestep[1], p.timestep[2]>>]]
        due(s) == \E q \in 1 .. k : s.mode = q * p.skip_per_save
    IN  <<[mode |-> 0, hrr_of |-> 0, time |-> <<0, p.timestep[2]>>]>>
            \o SelectSeq(all, due)

IsPrefix(s, t) == Len(s) <= Len(t) /\ \A i \in 1 .. Len(s) : s[i] = t[i]

\* C8: the samples of a run are, in this order, the converted initial mode
\* with its heat-release mode at time 0, sent before any update, and then for
\* every step index ind in 1..=total_steps one sample right after that step's
\* update exactly when ind is a multiple of skip_per_save, carrying the
\* post-update mode and the time ind * timestep; the times strictly increase.
C8_SampleSequence ==
    /\ pc \in {"running", "done"} => logs = SamplesUpTo(ind, settings.parameters)
    /\ pc = "panicked" => IsPrefix(logs, SamplesUpTo(ind, settings.parameters))
    /\ pc # "idle" => mode = ind
    /\ \A i, j \in 1 .. Len(logs) :
        i < j => logs[i].time[1] * logs[j].time[2] < logs[j].time[1] * logs[i].time[2]

\* a run has returned after sending the initial sample and two periodic ones,
\* with steps in between that sent none
C8_Witness ==
    /\ pc = "done"
    /\ settings.parameters.skip_per_save >= 2
    /\ Len(logs) >= 3
    /\ logs[2].mode = settings.parameters.skip_per_save

----------------------------------------------------------------------------
(* The command-line driver: claims C9, C10 *)

\* C9: in every branch of main() that runs a simulation and then saves it,
\* the save target is checked before the simulation starts, and a simulation
\* whose target group is already in the target file is never executed.
C9_TargetCheckedBeforeRun ==
    \A j \in 1 .. Len(jobs) :
        jobs[j].runs > 0 => (jobs[j].checked /\ ~jobs[j].clash)

\* C10: a failed save of a completed simulation is only reported: no
\* simulation is executed a second time, the process does not abort, and the
\* save of every other completed simulation of the batch is still attempted,
\* exactly once.
C10_FailedSaveOnlyReported ==
    /\ \A j \in 1 .. Len(jobs) :
        /\ jobs[j].runs <= 1
        /\ jobs[j].saves <= 1
        /\ jobs[j].saves = 1 => (jobs[j].state = "ran" /\ jobs[j].runs = 1)
        /\ (cli.phase = "save" /\ j < cli.cursor /\ jobs[j].state = "ran")
           => jobs[j].saves = 1
    /\ cli.phase = "save" => cli.cursor <= Len(jobs) + 1
    /\ cli.phase = "aborted" => \A j \in 1 .. Len(jobs) : jobs[j].saves = 0

\* the first save of a batch failed and the second one was still made
C10_Witness ==
    /\ cli.phase = "save"
    /\ Len(jobs) >= 2
    /\ jobs[1].saves = 1 /\ jobs[1].result = "Err"
    /\ jobs[2].saves = 1 /\ jobs[2].result = "Ok"

----------------------------------------------------------------------------
(* The batch: claims C11, C14 *)

\* main() has come to its end: every save was attempted, or a panic ended it
ProcessOver ==
    \/ cli.phase = "save" /\ cli.cursor > Len(jobs)
    \/ cli.phase = "aborted"

\* C11: in a batch of settings files, a file that cannot be loaded (missing,
\* malformed, or failing Parameters::init) only has its own simulation
\* skipped: it is never run or saved, and when main() is over every other file
\* has been loaded and checked, and simulated and saved unless its own check
\* or run stopped it.
C11_LoadFailureSkipsOnlyItself ==
    \A j, k \in 1 .. Len(jobs) :
        (/\ cli.branch = "batch"
         /\ j # k
         /\ jobs[j].loads # "Ok" /\ jobs[j].state # "pending"
         /\ jobs[k].loads = "Ok"
         /\ \A i \in 1 .. Len(jobs) : ~(jobs[i].panics /\ jobs[i].runs > 0))
        => /\ jobs[j].runs = 0 /\ jobs[j].saves = 0
           /\ ProcessOver =>
                /\ jobs[k].checked
                /\ jobs[k].state \in {"skipped", "ran"}
                /\ jobs[k].state = "ran" => jobs[k].saves = 1

----------------------------------------------------------------------------
(* The conversions: claims C18, C19 *)

\* C18: converting a Mode to a SystemMode fails if and only if amplitude <= 0
\* or |nature_angle| > pi/4; it fails for every mode Mode::is_valid rejects
\* and succeeds for every mode Mode::is_valid accepts.
C18_ConversionFailsIffInvalid ==
    conv.op = "SystemMode::from" =>
        /\ (conv.out.result = "panic") <=>
                (conv.arg.amplitude <= 0 \/ Abs(conv.arg.nature_angle) > FRAC_PI_4)
        /\ ~conv.valid => conv.out.result = "panic"
        /\ conv.valid => conv.out.result = "Ok"

----------------------------------------------------------------------------
(* The describing functions: claim C20 *)

\* C20: for every acoustic mode and every setup the Conventional describing
\* function returns from mode and from integral exactly what a Simplified one
\* with gain_ratio_r = 1 returns, also when the ConventionalFDF was read from
\* a configuration.
C20_ConventionalIsSimplifiedOne ==
    (conv.op \in {"mode", "integral"} /\ conv.df.kind = "Conventional") =>
        /\ conv.op = "mode" =>
            conv.out = AFDFSimplified_mode(AFDFSimplified_new(UnitRatio), conv.arg)
        /\ conv.op = "integral" =>
            conv.out = AFDFSimplified_integral(AFDFSimplified_new(UnitRatio),
                                               conv.arg, conv.setup)

\* a deserialized ConventionalFDF was asked for the integral of a circular
\* mode, where a Simplified with another ratio answers differently
C20_Witness ==
    /\ conv.op = "integral"
    /\ conv.df.kind = "Conventional" /\ conv.df.via = "file"
    /\ conv.arg.tan_2chi = TanMax
    /\ conv.out # AFDFSimplified_integral(AFDFSimplified_new(0),
                                          conv.arg, conv.setup)

\* C21: for every gain ratio and every acoustic mode, the heat-release mode
\* returned by mode() has the orientation angle nth0 and the phase phi of the
\* acoustic mode, only ln_a and tan_2chi may differ, and the acoustic mode
\* passed in is left as it was.
C21_ModeKeepsOrientationAndPhase ==
    conv.op = "mode" =>
        /\ conv.out.nth0 = conv.arg.nth0
        /\ conv.out.phi = conv.arg.phi
        /\ conv.arg_after = conv.arg

\* a Simplified with a ratio other than 1 turned a standing mode with a
\* nonzero orientation angle and phase: the nature angle did change
C21_Witness ==
    /\ conv.op = "mode"
    /\ conv.df.kind = "Simplified" /\ conv.df.hrr.gain_ratio_r = DefaultRatio
    /\ conv.arg.nth0 # 0 /\ conv.arg.phi # 0
    /\ conv.out.tan_2chi # conv.arg.tan_2chi
    /\ conv.out.nth0 = conv.arg.nth0 /\ conv.out.phi = conv.arg.phi

----------------------------------------------------------------------------
(* Settings::update_mode: claim C27 *)

\* C27: one state update computes all four increments from the nature angle
\* chi and the tan_2chi the mode had before the update: ln_a += rhs.real,
\* nth0 += rhs.i - tan_2chi_old * rhs.j, phi += rhs.j / cos(2 chi_old),
\* tan_2chi += -2 rhs.k / cos(2 chi_old)^2; no increment uses a component
\* already modified in the same step.
C27_UpdateReadsTheOldMode ==
    conv.op = "update_mode" =>
        LET old == conv.arg
            rhs == conv.rhs
            chi_old == SystemMode_chi(old)
        IN  /\ conv.out.ln_a
                 = Clamp(old.ln_a + rhs.real, MinusInf, MaxAmpExp - ExpMin)
            /\ conv.out.nth0 = old.nth0 + rhs.imag_i - old.tan_2chi * rhs.imag_j
            /\ conv.out.phi = old.phi + rhs.imag_j * Sec2chi(chi_old)
            /\ conv.out.tan_2chi
                 = Clamp(old.tan_2chi - 2 * rhs.imag_k * SecSq2chi(chi_old),
                         -(TanMax + 1), TanMax + 1)

\* an update moved a mixed mode towards the circular one, and moved the
\* orientation angle by the tan_2chi the mixed mode had
C27_Witness ==
    /\ conv.op = "update_mode"
    /\ conv.arg.tan_2chi = 1 /\ conv.out.tan_2chi >= TanMax
    /\ conv.rhs.imag_j = 1
    /\ conv.out.nth0 = conv.arg.nth0 + conv.rhs.imag_i - 1
    /\ conv.out.phi > conv.arg.phi

----------------------------------------------------------------------------
(* Saving: claims C26, C28, C29 *)

\* C26: Observer::save to a target whose group already exists in the target
\* file returns an error and leaves the existing group and its datasets
\* unchanged: results are never overwritten.
C26_ExistingGroupIsKept ==
    [][\A k \in 1 .. Len(jobs) :
        (/\ Len(jobs') = Len(jobs)
         /\ jobs'[k].saves = jobs[k].saves + 1
         /\ Key(jobs[k].target) \in store)
        => (jobs'[k].result = "Err" /\ store' = store)]_vars

\* two simulations of a batch named the same group: the first save created
\* it, the second one failed and the group is still there
C26_Witness ==
    /\ cli.branch = "batch" /\ cli.phase = "save"
    /\ Len(jobs) >= 2
    /\ jobs[1].target = jobs[2].target
    /\ jobs[1].saves = 1 /\ jobs[1].result = "Ok"
    /\ jobs[2].saves = 1 /\ jobs[2].result = "Err"
    /\ Key(jobs[1].target) \in store

\* C28: in the parallel batch modes (experiment, several settings files)
\* every save starts only after all simulations of the batch have finished,
\* and the saves are executed one after another, in the order of the batch,
\* so that no two writers access the dataset store at the same time.
C28_SavesFollowTheBatch ==
    [][(/\ cli.branch \in {"experiment", "batch"}
        /\ Len(jobs') = Len(jobs)
        /\ \E j \in 1 .. Len(jobs) : jobs'[j].saves # jobs[j].saves)
       => /\ \A j \in 1 .. Len(jobs) : jobs[j].state \in {"skipped", "ran"}
          /\ \A j \in 1 .. Len(jobs) : j # cli.cursor => jobs'[j] = jobs[j]
          /\ \A j \in 1 .. Len(jobs) : j > cli.cursor => jobs[j].saves = 0]_vars

\* the second simulation of the experiment has been saved after the first
C28_Witness ==
    /\ cli.branch = "experiment" /\ cli.phase = "save"
    /\ jobs[1].saves = 1 /\ jobs[2].saves = 1
    /\ jobs[3].saves = 0 /\ jobs[3].state = "ran"

\* C29: SaveInfo::is_valid returns Err(DirectoryNotFound) whenever the
\* directory that should contain the output file does not exist, returns
\* Err(GroupAlreadyExist) whenever the file exists and already contains the
\* group, and returns Ok only when the directory exists and the group is not
\* yet present.
C29_VerdictOfIsValid ==
    \A j \in 1 .. Len(jobs) :
        (cli.phase = "simulate" /\ jobs[j].checked) =>
            /\ ~jobs[j].target.dir => jobs[j].verdict = "DirectoryNotFound"
            /\ Key(jobs[j].target) \in store => jobs[j].verdict = "GroupAlreadyExist"
            /\ jobs[j].verdict = "Ok" =>
                (jobs[j].target.dir /\ Key(jobs[j].target) \notin store)

----------------------------------------------------------------------------
(* Fourier::coefficient: claims C22 - C24 *)

\* C22: Fourier::coefficient with order 0 returns as amplitude the arithmetic
\* mean of the signal samples and a NaN phase, whatever the sample locations
\* and the reference angle are (the mean of no samples is NaN).
C22_ZerothIsMean ==
    (conv.op \in {"coefficient", "fourier2n"} /\ conv.order = 0) =>
        /\ conv.out.phase = NaN
        /\ ~conv.out.amplitude.root
        /\ conv.signal = <<>> => conv.out.amplitude.den = 0
        /\ conv.signal # <<>> =>
            /\ conv.out.amplitude.den > 0
            /\ Scale3(2 * Len(conv.signal), conv.out.amplitude.num)
                 = Scale3(conv.out.amplitude.den, SignalSum(conv.signal))

\* the mean of several unequal samples was asked for with fewer samples than
\* sample locations and a reference angle other than 0
C22_Witness ==
    /\ conv.op = "coefficient" /\ conv.order = 0
    /\ Len(conv.signal) >= 2 /\ conv.signal[1] # conv.signal[2]
    /\ Len(conv.thetas) > Len(conv.signal)
    /\ conv.ntheta0 # 0
    /\ conv.out.amplitude.num # <<0, 0>>

\* C23: for order > 0, Fourier::coefficient normalises the sine and cosine
\* sums by f/N, where N is the number of sample locations and f = 1 exactly
\* when order equals N div 2 (integer division) and f = 2 for every other
\* order; called from the describing function, order = 2 * mode_order has
\* the half weight exactly when 2 * mode_order = number_of_burners div 2.
C23_NormalisedByPreFactor ==
    (conv.op \in {"coefficient", "fourier2n"} /\ conv.order > 0) =>
        LET N == Len(conv.thetas)
            pairs == IF N < Len(conv.signal) THEN N ELSE Len(conv.signal)
            f == IF conv.op = "fourier2n"
                 THEN (IF 2 * conv.mode_order = conv.number_of_burners \div 2
                       THEN 1 ELSE 2)
                 ELSE (IF conv.order = N \div 2 THEN 1 ELSE 2)
            sum(sine) == TrigSum(conv.thetas, conv.signal, conv.order,
                                 conv.ntheta0, sine, pairs)
        IN  /\ conv.terms.sin_term = [num |-> Scale3(f, sum(TRUE)), den |-> 4 * N]
            /\ conv.terms.cos_term = [num |-> Scale3(f, sum(FALSE)), den |-> 4 * N]

\* the describing function asked for the order that is half the number of
\* burners, and the sum it was given did not vanish
C23_Witness ==
    /\ conv.op = "fourier2n"
    /\ conv.mode_order > 0
    /\ 2 * conv.mode_order = conv.number_of_burners \div 2
    /\ conv.terms.cos_term.num # <<0, 0>>
    /\ conv.terms.cos_term.num =
            TrigSum(conv.thetas, conv.signal, conv.order, conv.ntheta0, FALSE,
                    conv.number_of_burners)

\* the synthetic signal determines n2 and thi at the injected order: twice
\* the order is no multiple of the number of points, and order * thi lies
\* within (-pi, pi)
WellPosed ==
    /\ (2 * conv.order) % conv.n_points # 0
    /\ Abs(conv.order * conv.thi) < PI

\* C24: for the signal n0 + n2 * cos(order * (theta - thi) - nth0) sampled at
\* N equally spaced points, Fourier::coefficient at the injected order with
\* reference angle nth0 returns amplitude n2 and phase thi, and at order 0
\* returns amplitude n0 (checked where the signal determines them).
C24_RecoversInjectedHarmonic ==
    (conv.op = "synthetic" /\ WellPosed) =>
        /\ ~conv.zeroth.amplitude.root
        /\ conv.zeroth.amplitude.num = Scale3(conv.zeroth.amplitude.den, <<conv.n0, 0>>)
        /\ conv.out.amplitude.root
        /\ conv.out.amplitude.num
             = <<(conv.out.amplitude.den * conv.n2) * (conv.out.amplitude.den * conv.n2), 0>>
        /\ conv.out.phase.den > 0
        /\ conv.out.phase.num = <<conv.out.phase.den * conv.thi, 0>>

----------------------------------------------------------------------------
(* Saturation::factor: claim C25 *)

\* C25: for both Saturation variants with kappa > 0, Saturation::factor
\* returns one factor per input amplitude, each factor lies in (0,1] for a
\* non-negative amplitude, the factor is non-increasing in the amplitude,
\* and the factor of amplitude 0 is exactly 1.
C25_FactorInUnitInterval ==
    conv.op = "factor" =>
        /\ Len(conv.out) = Len(conv.arg)
        /\ \A i \in 1 .. Len(conv.arg) :
            /\ conv.out[i] > 0 /\ conv.out[i] <= Pow2(ExpMin)
            /\ conv.arg[i] = 0 => conv.out[i] = Pow2(ExpMin)
        /\ \A i, j \in 1 .. Len(conv.arg) :
            conv.arg[i] <= conv.arg[j] => conv.out[i] >= conv.out[j]

----------------------------------------------------------------------------
(* The histogram observer: claims C15, C16 *)

\* C15: for a HistogramObserver no log call takes amplitude_limit above
\* max_amplitude_limit: an amplitude that would need a wider range than the
\* ceiling is fatal instead.
C15_RangeNeverExceedsCeiling ==
    [][(/\ obs.kind = "Histogram" /\ obs'.kind = "Histogram"
        /\ obs.amplitude_limit <= obs.max_amplitude_limit
        /\ obs'.max_amplitude_limit = obs.max_amplitude_limit
        /\ obs'.num_values > obs.num_values)
       => obs'.amplitude_limit <= obs'.max_amplitude_limit]_vars

\* C16: Observer::log records the sample without failing for every observer
\* built by Default, new, From<SaveInfo> or read by Settings::from_file, as
\* long as the amplitude stays below the histogram ceiling; every bin index
\* of a histogram lies inside its bin vector.
C16_LogNeverFails ==
    /\ (obs.kind # "none" /\ obs.state = "panicked")
       => (obs.site = "amplitude ceiling"
           /\ obs.logged >= obs.max_amplitude_limit)
    /\ (obs.kind = "Histogram" /\ obs.state = "ok" /\ obs.index # <<>>)
       => /\ obs.index[1] \in 0 .. obs.a - 1
          /\ \A i \in 2 .. 5 : obs.index[i] \in 0 .. obs.bins - 1

\* the sum of the entries lo..hi of a bin vector, and of all of them
RECURSIVE SumBetween(_, _, _)
SumBetween(bin_vec, lo, hi) ==
    IF lo > hi THEN 0
    ELSE IF lo = hi THEN bin_vec[lo]
    ELSE LET mid == (lo + hi) \div 2
         IN  SumBetween(bin_vec, lo, mid) + SumBetween(bin_vec, mid + 1, hi)

SumOf(bin_vec) == SumBetween(bin_vec, 1, Len(bin_vec))

\* bin vector `after` is `before`, with zeros appended, and one more in
\* exactly one bin
OneMoreInOneBin(before, after) ==
    /\ Len(after) >= Len(before)
    /\ \E i \in 1 .. Len(after) :
        \A q \in 1 .. Len(after) :
            after[q] = (IF q <= Len(before) THEN before[q] ELSE 0)
                       + (IF q = i THEN 1 ELSE 0)

\* C30: for a HistogramObserver, after k successful log calls num_values = k
\* and the counts of each of the five histograms sum to k: every log
\* increments exactly one bin of each histogram by one, and widening the
\* amplitude range keeps the recorded counts in their bins and keeps the bin
\* width amplitude_limit / (number of amplitude bins) unchanged.
C30_CountsAddUp ==
    [][(obs'.kind = "Histogram" /\ obs'.state = "ok") =>
        /\ \A x \in {"a", "nth0", "phi", "chi", "chi_q"} :
            SumOf(obs'.hist[x]) = obs'.num_values
        /\ (/\ obs.kind = "Histogram"
            /\ obs'.num_values # obs.num_values)
           => /\ obs'.num_values = obs.num_values + 1
              /\ OneMoreInOneBin(obs.hist.a, obs'.hist.a)
              /\ \A x \in {"nth0", "phi", "chi", "chi_q"} :
                    /\ Len(obs'.hist[x]) = Len(obs.hist[x])
                    /\ OneMoreInOneBin(obs.hist[x], obs'.hist[x])
              /\ obs'.amplitude_limit * Len(obs.hist.a)
                    = obs.amplitude_limit * Len(obs'.hist.a)]_vars

\* a second log widened the amplitude range and found the count of the
\* first one where it was
C30_Witness ==
    /\ obs.kind = "Histogram" /\ obs.state = "ok"
    /\ obs.num_values = 2
    /\ Len(obs.hist.a) > obs.nbins
    /\ obs.hist.a[1] = 1
    /\ obs.hist.a[Len(obs.hist.a)] = 1

----------------------------------------------------------------------------
(* The noise source and the parallel batch: claims C12, C13, C14, C17 *)

\* two sequences of samples agree as far as both go
SamePrefix(s, t) ==
    \A i \in 1 .. (IF Len(s) < Len(t) THEN Len(s) ELSE Len(t)) : s[i] = t[i]

\* C12: with noise = 0, two executions of Settings::run from identical
\* parameters, saturation and describing function log identical sequences of
\* samples, whatever the noise source returns in either run.
C12_DriftOnlyIsDeterministic ==
    (/\ sims # <<>>
     /\ sims[1].cfg = sims[2].cfg
     /\ sims[1].cfg.setup.noise = 0)
    => SamePrefix(sims[1].logs, sims[2].logs)

\* two complete runs without noise drew different values all along and
\* logged the same samples
C12_Witness ==
    /\ sims # <<>>
    /\ sims[1].cfg = sims[2].cfg
    /\ sims[1].cfg.setup.noise = 0
    /\ sims[1].pc = "done" /\ sims[2].pc = "done"
    /\ Len(sims[1].logs) = SimSteps + 1
    /\ \A i \in 1 .. SimSteps : sims[1].draws[i] # sims[2].draws[i]
    /\ sims[1].logs = sims[2].logs
    /\ sims[1].logs[1].mode # sims[1].logs[SimSteps + 1].mode

\* C13: with noise > 0 the noise source of a run can be fixed, and two runs
\* from identical configuration, the noise source included, log identical
\* trajectories.  (A configuration is all a caller can set: RNG::new takes no
\* seed.)
C13_SeededRunsAgree ==
    (/\ sims # <<>>
     /\ sims[1].cfg = sims[2].cfg
     /\ sims[1].cfg.setup.noise > 0)
    => SamePrefix(sims[1].logs, sims[2].logs)

\* what a run holds after one more draw when no other run interferes
ReplayStep(cfg, before, draw, n) ==
    LET rhs == get_rhs(cfg, before.sys, draw)
        nan == before.nan \/ rhs.nan
        sys == IF nan THEN before.sys ELSE update_mode(before.sys, rhs)
    IN  [sys |-> sys, nan |-> nan,
         logs |-> Append(before.logs, SimSample(cfg, sys, nan, n))]

RECURSIVE ReplayFrom(_, _, _, _)
ReplayFrom(cfg, draws, n, before) ==
    IF n > Len(draws) THEN before
    ELSE ReplayFrom(cfg, draws, n + 1, ReplayStep(cfg, before, draws[n], n))

\* what a run that has consumed `draws` holds
Replay(cfg, draws) ==
    LET sys == SystemMode_from(cfg.initial_mode).sys
    IN  ReplayFrom(cfg, draws, 1,
                   [sys |-> sys, nan |-> FALSE,
                    logs |-> <<SimSample(cfg, sys, FALSE, 0)>>])

\* C14: the simulations of a parallel batch share no mutable state: under
\* every interleaving the samples a run has logged, and the mode it holds,
\* are those its own configuration and its own noise draws give.
C14_RunsAreIndependent ==
    sims # <<>> =>
        \A r \in SimRuns :
            IF sims[r].pc = "ready"
            THEN sims[r].logs = <<>> /\ sims[r].draws = <<>> /\ sims[r].ind = 0
            ELSE /\ sims[r].ind = Len(sims[r].draws)
                 /\ Replay(sims[r].cfg, sims[r].draws) =
                        [sys |-> sims[r].sys, nan |-> sims[r].nan,
                         logs |-> sims[r].logs]

\* two runs of different configuration, one finished while the other was
\* between two steps
C14_Witness ==
    /\ sims # <<>>
    /\ sims[1].cfg # sims[2].cfg
    /\ sims[1].pc = "running" /\ sims[1].ind = 1
    /\ sims[2].pc = "done" /\ sims[2].ind = SimSteps
    /\ sims[1].cfg.setup.noise > 0 /\ sims[2].cfg.setup.noise > 0
    /\ sims[1].draws[1] # sims[2].draws[1]

\* the amplitude is positive and the nature angle strictly inside the bound
InsideBounds(sys, nan) ==
    /\ ~nan
    /\ SystemMode_a(sys) > 0
    /\ Abs(SystemMode_chi(sys)) < FRAC_PI_4

\* C17: in every state of a run, after any number of update steps with
\* arbitrary finite noise draws, the mode's amplitude a() is strictly
\* positive and its nature angle chi() strictly inside (-pi/4, pi/4), and so
\* is every mode passed to the observer.
C17_ModeStaysInsideBounds ==
    sims # <<>> =>
        \A r \in SimRuns :
            /\ sims[r].pc \in {"running", "done"}
                => InsideBounds(sims[r].sys, sims[r].nan)
            /\ \A i \in 1 .. Len(sims[r].logs) :
                InsideBounds(sims[r].logs[i].mode, sims[r].logs[i].nan)

====
